---- MODULE Spec2Model ----
(***************************************************************************)
(* Model of the aerugo core: the executor (src/src/executor.rs), tasklets  *)
(* (src/src/tasklet.rs), message queues (src/src/message_queue.rs), events *)
(* (src/src/event.rs), boolean conditions and the time manager with its    *)
(* cyclic executions (src/src/time_manager.rs, cyclic_execution.rs).       *)
(*                                                                         *)
(* The main thread is modelled with a program counter: every critical      *)
(* section (one Mutex::lock call) of the executor loop and of a send       *)
(* issued from a step function is one atomic step.  Interrupt handlers run *)
(* to completion between two such steps, so an operation issued from       *)
(* interrupt context is one atomic action.                                 *)
(***************************************************************************)
EXTENDS Integers, Sequences, FiniteSets, TLC

\* ---------------------------------------------------------------- bounds
NumQueues == 2
QueueCapacity == 2
MaxSends == 4
MaxClears == 1
MaxTime == 1
MaxEmits == 3         \* emit calls
NumConditions == 2
MaxSets == 2          \* set_boolean_condition calls
MaxSteps == 2         \* steps of tasklets bound to condition sets
MaxTicks == 2         \* ticks of the time manager
MaxTick == 9          \* the latest instant of a tick
MaxPeriod == 2
MaxOffset == 1
MaxInitCalls == 3

\* Aerugo::TASKLET_COUNT: capacity of the executor heap and of every
\* subscription list; the system-wide tasklet count.
TASKLET_COUNT == 2

Tasklets == 1..TASKLET_COUNT
Queues == 1..NumQueues
Priorities == {1, 5}
EventIds == {10, 11}
Conditions == 1..NumConditions

VARIABLES
    pc,                   \* position of the main thread
    status,               \* Tasklet::status
    last_execution_time,  \* Tasklet::last_execution_time
    data_provider,        \* Tasklet::data_provider (the queue a tasklet consumes)
    priority,             \* tasklet priority, the key of the executor heap
    registered_tasklets,  \* MessageQueue::registered_tasklets
    data_queue,           \* MessageQueue::data_queue
    tasklet_queue,        \* Executor::tasklet_queue: number of entries per tasklet
    cur,                  \* `tasklet` of execute_next_tasklet (0: none)
    val,                  \* value handed to the step function in this loop turn (0: none)
    wk_q, wk_i,           \* wake_tasklets of the send issued by the step: queue, index
    executed,             \* result of the last execute_next_tasklet: Ok(executed)
    system_time,          \* last instant read from AERUGO.get_system_time()
    send_q, ret,          \* last send_data call: its queue and its result
    nsend, nclear,        \* operations issued so far
    log,                  \* history: step invocations <<tasklet, value>>
    sent,                 \* history: values enqueued into each queue
    cleared,              \* history: values removed by clear()
    provider_kind,        \* the kind of object behind Tasklet::data_provider
    sets,                 \* Event::sets: the event sets (by owning tasklet) of each event
    active,               \* EventSet: the pending event ids of each tasklet's set
    nemit,                \* emit calls issued so far
    emitted,              \* history: the ids emitted, in the order of the calls
    cond_value,           \* BooleanCondition: the current value
    cond_members,         \* BooleanConditionSet: the conditions of each tasklet's set
    cond_rule,            \* BooleanConditionSet: AllTrue or AnyTrue
    nset,                 \* set_boolean_condition calls issued so far
    set_calls,            \* history: the set calls <<condition, value>>, in order
    next_execution_time,  \* CyclicExecution::next_execution_time
    period,               \* CyclicExecution::period: {} is None, {p} is Some(p)
    ntick,                \* ticks of the time manager so far
    cyclic_executions,    \* TimeManager::cyclic_executions
    init_calls,           \* history: the subscription calls made before the start
    wdt_mr,               \* Watchdog::wdt: the mode register WDT_MR as the driver wrote it
    configured,           \* Watchdog::configured
    wdt_calls,            \* history: the calls of configure and disable, in order
    tk_pc,                \* position of the tick handler of the time manager
    tk_i,                 \* the cyclic execution the tick handler has reached
    nadd                  \* additions made by the catch-up loop, modulo MaxAdds

vars == <<pc, status, last_execution_time, data_provider, priority,
          registered_tasklets, data_queue, tasklet_queue, cur, val, wk_q, wk_i,
          executed, system_time, send_q, ret, nsend, nclear, log, sent, cleared,
          provider_kind, sets, active, nemit, emitted, cond_value, cond_members,
          cond_rule, nset, set_calls, next_execution_time, period, ntick,
          cyclic_executions, init_calls, wdt_mr, configured, wdt_calls,
          tk_pc, tk_i, nadd>>

\* The watchdog of the board: no operation of the executor touches it.
watchdog == <<wdt_mr, configured, wdt_calls>>
\* The tick handler when its steps are modelled one by one.
handler == <<tk_pc, tk_i, nadd>>
topology == <<data_provider, priority, registered_tasklets, init_calls,
              watchdog, handler>>
history == <<log, sent, cleared>>

\* The state of the wake sources other than message queues.
events == <<sets, active, nemit, emitted>>
conditions == <<cond_value, cond_members, cond_rule, nset, set_calls>>
cyclic == <<next_execution_time, period, ntick, cyclic_executions>>
ext == <<provider_kind, events, conditions, cyclic>>

\* The state of the message queues and of the sends in progress.
queues == <<data_queue, wk_q, wk_i, send_q, nsend, nclear, sent, cleared>>

\* ------------------------------------------------------- executor heap
RECURSIVE SumTo(_, _)
SumTo(h, n) == IF n = 0 THEN 0 ELSE h[n] + SumTo(h, n - 1)

\* BinaryHeap::len
HeapLen(h) == SumTo(h, TASKLET_COUNT)

\* Mutant of TaskletLess: tasklets are ordered by priority alone.
TaskletLess_PriorityOnly(a, b) == priority[a] < priority[b]

\* Mutant of TaskletLess: ties are broken towards the older tasklet.
TaskletLess_TiesReversed(a, b) ==
    \/ priority[a] < priority[b]
    \/ priority[a] = priority[b] /\ a > b

\* Ord of TaskletPtr: by priority, ties by the stable tasklet identifier.
TaskletLess(a, b) ==
    \/ priority[a] < priority[b]
    \/ priority[a] = priority[b] /\ a < b

\* Mutant of HeapTop: the heap built with Min instead of Max.
HeapTop_Min(h) ==
    CHOOSE t \in Tasklets :
        /\ h[t] > 0
        /\ \A u \in Tasklets : h[u] > 0 => ~TaskletLess(u, t)

\* BinaryHeap<_, Max, _>::peek: the greatest entry.
HeapTop(h) ==
    CHOOSE t \in Tasklets :
        /\ h[t] > 0
        /\ \A u \in Tasklets : h[u] > 0 => ~TaskletLess(t, u)

HeapPush(h, t) == [h EXCEPT ![t] = @ + 1]
HeapPop(h) == [h EXCEPT ![HeapTop(h)] = @ - 1]
HeapFull(h) == HeapLen(h) >= TASKLET_COUNT

\* ------------------------------------------------------ tasklet, queue
\* DataProvider::data_ready of a message queue
DataReady(q) == data_queue[q] # <<>>

\* DataProvider::data_ready of an event set: some event is pending
EventSetDataReady(t) == active[t] # {}

\* Mutant of Evaluate: every set is evaluated with the AnyTrue rule.
Evaluate_AlwaysAny(v, t) == \E c \in cond_members[t] : v[c]

\* The value of a condition set: its rule over the values v of its members
Evaluate(v, t) ==
    IF cond_rule[t] = "AllTrue"
    THEN \A c \in cond_members[t] : v[c]
    ELSE \E c \in cond_members[t] : v[c]

\* DataProvider::data_ready of a condition set: the rule is satisfied
ConditionSetDataReady(t) == Evaluate(cond_value, t)

\* Mutant of CyclicDataWaiting: a cyclic execution always reports data.
CyclicDataWaiting_True(t) == TRUE

\* DataProvider::data_waiting of a cyclic execution
CyclicDataWaiting(t) == FALSE

\* Tasklet::has_work: data_ready of the bound provider, false without one
HasWork(t) ==
    CASE provider_kind[t] = "queue" -> DataReady(data_provider[t])
      [] provider_kind[t] = "event_set" -> EventSetDataReady(t)
      [] provider_kind[t] = "condition_set" -> ConditionSetDataReady(t)
      [] provider_kind[t] = "cyclic" -> CyclicDataWaiting(t)
      [] OTHER -> FALSE

\* Subscribers of queue q in registration order.
RECURSIVE SubscribersUpTo(_, _, _)
SubscribersUpTo(dp, q, n) ==
    IF n = 0 THEN <<>>
    ELSE LET r == SubscribersUpTo(dp, q, n - 1)
         IN IF dp[n] = q THEN Append(r, n) ELSE r

\* Executor::add_tasklet_to_queue on (status, heap): the status is written
\* before the push is attempted.
AddTaskletToQueue(st, h, t) ==
    [status |-> [st EXCEPT ![t] = "Waiting"],
     heap   |-> IF HeapFull(h) THEN h ELSE HeapPush(h, t),
     ok     |-> ~HeapFull(h)]

\* Executor::schedule_tasklet executed without interruption.
ScheduleTasklet(st, h, t) ==
    IF st[t] = "Sleeping"
    THEN AddTaskletToQueue(st, h, t)
    ELSE [status |-> st, heap |-> h, ok |-> TRUE]

\* Mutant of WakeTasklets: only the first registered tasklet is woken.
WakeTasklets_FirstOnly(st, h, list, i) ==
    IF i > Len(list) \/ i > 1 THEN [status |-> st, heap |-> h, ok |-> TRUE]
    ELSE ScheduleTasklet(st, h, list[i])

\* MessageQueue::wake_tasklets executed without interruption, from the
\* i-th registered tasklet on; it stops at the first failed push (panic).
RECURSIVE WakeTasklets(_, _, _, _)
WakeTasklets(st, h, list, i) ==
    IF i > Len(list) THEN [status |-> st, heap |-> h, ok |-> TRUE]
    ELSE LET r == ScheduleTasklet(st, h, list[i])
         IN IF r.ok THEN WakeTasklets(r.status, r.heap, list, i + 1) ELSE r

\* ------------------------------------------------------------- initial
\* The state when the application has created and wired its objects: every
\* tasklet is subscribed to one queue.  Queues are interchangeable, so the
\* queues in use are numbered in the order of their first subscriber.
NoQueues ==
    /\ data_provider = [t \in Tasklets |-> 0]
    /\ registered_tasklets = [q \in Queues |-> <<>>]

NoEvents ==
    /\ sets = [e \in EventIds |-> <<>>]
    /\ active = [t \in Tasklets |-> {}]

NoConditions ==
    /\ cond_value = [c \in Conditions |-> FALSE]
    /\ cond_members = [t \in Tasklets |-> {}]
    /\ cond_rule = [t \in Tasklets |-> "AllTrue"]

NoCyclic ==
    /\ next_execution_time = [t \in Tasklets |-> 0]
    /\ period = [t \in Tasklets |-> {}]
    /\ cyclic_executions = <<>>

\* The 12-bit counter field WDV of the mode register holds at most 2^12 - 1.
WDV_MAX == 4095

\* Watchdog::new: nothing is configured, the mode register has the value the
\* hardware gives it at reset (enabled, reset on overflow, longest period).
NewWatchdog ==
    /\ wdt_mr = [wddis |-> FALSE, wdrsten |-> TRUE, wdv |-> WDV_MAX]
    /\ configured = FALSE
    /\ wdt_calls = <<>>

\* No tick is being handled.
HandlerIdle == tk_pc = "idle" /\ tk_i = 0 /\ nadd = 0

\* The executor, the tasklets and the histories before the start.
InitExecutor ==
    /\ pc = "init"
    /\ status = [t \in Tasklets |-> "Sleeping"]
    /\ last_execution_time = [t \in Tasklets |-> 0]
    /\ priority \in [Tasklets -> Priorities]
    /\ data_queue = [q \in Queues |-> <<>>]
    /\ tasklet_queue = [t \in Tasklets |-> 0]
    /\ cur = 0 /\ val = 0 /\ wk_q = 0 /\ wk_i = 0
    /\ executed = FALSE
    /\ system_time = 0
    /\ send_q = 0 /\ ret = "none"
    /\ nsend = 0 /\ nclear = 0 /\ nemit = 0 /\ nset = 0 /\ ntick = 0
    /\ log = <<>> /\ sent = [q \in Queues |-> <<>>] /\ cleared = {}
    /\ emitted = <<>> /\ set_calls = <<>> /\ init_calls = <<>>
    /\ NewWatchdog /\ HandlerIdle

Init ==
    /\ pc = "init"
    /\ status = [t \in Tasklets |-> "Sleeping"]
    /\ last_execution_time = [t \in Tasklets |-> 0]
    /\ provider_kind = [t \in Tasklets |-> "queue"]
    /\ NoEvents /\ NoConditions /\ NoCyclic
    /\ nemit = 0 /\ emitted = <<>> /\ nset = 0 /\ set_calls = <<>> /\ ntick = 0
    /\ init_calls = <<>>
    /\ NewWatchdog /\ HandlerIdle
    /\ data_provider \in [Tasklets -> Queues]
    /\ \A t \in Tasklets :
          data_provider[t] > 1 =>
              \E u \in 1..(t - 1) : data_provider[u] = data_provider[t] - 1
    /\ priority \in [Tasklets -> Priorities]
    /\ registered_tasklets =
           [q \in Queues |-> SubscribersUpTo(data_provider, q, TASKLET_COUNT)]
    /\ data_queue = [q \in Queues |-> <<>>]
    /\ tasklet_queue = [t \in Tasklets |-> 0]
    /\ cur = 0
    /\ val = 0
    /\ wk_q = 0
    /\ wk_i = 0
    /\ executed = FALSE
    /\ system_time = 0
    /\ send_q = 0
    /\ ret = "none"
    /\ nsend = 0
    /\ nclear = 0
    /\ log = <<>>
    /\ sent = [q \in Queues |-> <<>>]
    /\ cleared = {}

\* The scheduler has been started.
Started == pc # "init"

\* Mutant of SendDataAtomic: a send on a full queue overwrites the newest
\* element and wakes the subscribers.
SendDataAtomic_OverwritesWhenFull(q, next) ==
    /\ nsend < MaxSends
    /\ nsend' = nsend + 1
    /\ send_q' = q
    /\ LET r == WakeTasklets(status, tasklet_queue, registered_tasklets[q], 1)
           kept == IF Len(data_queue[q]) >= QueueCapacity
                   THEN SubSeq(data_queue[q], 1, Len(data_queue[q]) - 1)
                   ELSE data_queue[q]
       IN /\ data_queue' = [data_queue EXCEPT ![q] = Append(kept, nsend + 1)]
          /\ sent' = [sent EXCEPT ![q] = Append(@, nsend + 1)]
          /\ status' = r.status
          /\ tasklet_queue' = r.heap
          /\ ret' = IF r.ok THEN "Ok" ELSE "panic"
          /\ pc' = IF r.ok THEN next ELSE "halted"
    /\ UNCHANGED <<ext, last_execution_time, topology, cur, val, wk_q, wk_i, executed,
                   system_time, nclear, log, cleared>>

\* ------------------------------------------- send_data, uninterrupted
\* MessageQueue::send_data as one atomic operation; `next` is the position
\* of the main thread when the call returns.  The value sent is the ordinal
\* of the call.
SendDataAtomic(q, next) ==
    /\ nsend < MaxSends
    /\ nsend' = nsend + 1
    /\ send_q' = q
    /\ IF Len(data_queue[q]) >= QueueCapacity
       THEN /\ ret' = "DataQueueFull"
            /\ pc' = next
            /\ UNCHANGED <<data_queue, sent, status, tasklet_queue>>
       ELSE LET r == WakeTasklets(status, tasklet_queue, registered_tasklets[q], 1)
            IN /\ data_queue' = [data_queue EXCEPT ![q] = Append(@, nsend + 1)]
               /\ sent' = [sent EXCEPT ![q] = Append(@, nsend + 1)]
               /\ status' = r.status
               /\ tasklet_queue' = r.heap
               /\ ret' = IF r.ok THEN "Ok" ELSE "panic"
               /\ pc' = IF r.ok THEN next ELSE "halted"
    /\ UNCHANGED <<ext, last_execution_time, topology, cur, val, wk_q, wk_i, executed,
                   system_time, nclear, log, cleared>>

\* A send issued by the application before the scheduler is started.
InitSend == \E q \in Queues : pc = "init" /\ SendDataAtomic(q, "init")

\* A send issued by an interrupt handler while the scheduler runs.
IsrSend == \E q \in Queues : Started /\ pc # "halted" /\ SendDataAtomic(q, pc)

\* InitApi::start -> Executor::run_scheduler
Start ==
    /\ pc = "init"
    /\ pc' = "loop"
    /\ UNCHANGED <<ext, status, last_execution_time, topology, data_queue, tasklet_queue,
                   cur, val, wk_q, wk_i, executed, system_time, send_q, ret, nsend,
                   nclear, history>>

\* ------------------------------------------------------- executor loop
\* execute_next_tasklet: get_tasklet_for_execution (q.pop() under the lock);
\* on an empty heap the turn ends with Ok(false).
GetTaskletForExecution ==
    /\ pc = "loop"
    /\ IF HeapLen(tasklet_queue) = 0
       THEN /\ executed' = FALSE
            /\ UNCHANGED <<pc, cur, tasklet_queue>>
       ELSE /\ cur' = HeapTop(tasklet_queue)
            /\ tasklet_queue' = HeapPop(tasklet_queue)
            /\ pc' = "set_working"
            /\ UNCHANGED executed
    /\ UNCHANGED <<ext, status, last_execution_time, topology, data_queue, val, wk_q,
                   wk_i, system_time, send_q, ret, nsend, nclear, history>>

\* execute_next_tasklet: tasklet.set_status(TaskStatus::Working)
SetWorking ==
    /\ pc = "set_working"
    /\ status' = [status EXCEPT ![cur] = "Working"]
    /\ pc' = "execute"
    /\ UNCHANGED <<ext, last_execution_time, topology, data_queue, tasklet_queue, cur,
                   val, wk_q, wk_i, executed, system_time, send_q, ret, nsend,
                   nclear, history>>

\* Mutant of Execute: get_data takes the newest element instead of the oldest.
Execute_Lifo ==
    /\ pc = "execute"
    /\ provider_kind[cur] = "queue"
    /\ LET q == data_provider[cur]
           n == Len(data_queue[q])
       IN IF data_queue[q] = <<>>
          THEN /\ pc' = "set_time"
               /\ UNCHANGED <<data_queue, val, log>>
          ELSE /\ val' = data_queue[q][n]
               /\ data_queue' = [data_queue EXCEPT ![q] = SubSeq(@, 1, n - 1)]
               /\ log' = Append(log, <<cur, data_queue[q][n]>>)
               /\ pc' = "step"
    /\ UNCHANGED <<ext, status, last_execution_time, topology, tasklet_queue, cur, wk_q,
                   wk_i, executed, system_time, send_q, ret, nsend, nclear, sent,
                   cleared>>

\* Mutant of Execute: the value is read but left in the queue.
Execute_PeeksOnly ==
    /\ pc = "execute"
    /\ provider_kind[cur] = "queue"
    /\ LET q == data_provider[cur]
       IN IF data_queue[q] = <<>>
          THEN /\ pc' = "set_time"
               /\ UNCHANGED <<data_queue, val, log>>
          ELSE /\ val' = Head(data_queue[q])
               /\ data_queue' = data_queue
               /\ log' = Append(log, <<cur, Head(data_queue[q])>>)
               /\ pc' = "step"
    /\ UNCHANGED <<ext, status, last_execution_time, topology, tasklet_queue, cur, wk_q,
                   wk_i, executed, system_time, send_q, ret, nsend, nclear, sent,
                   cleared>>

\* Tasklet::execute: get_data from the provider, then the step function
Execute ==
    /\ pc = "execute"
    /\ provider_kind[cur] = "queue"
    /\ LET q == data_provider[cur]
       IN IF data_queue[q] = <<>>
          THEN /\ pc' = "set_time"
               /\ UNCHANGED <<data_queue, val, log>>
          ELSE /\ val' = Head(data_queue[q])
               /\ data_queue' = [data_queue EXCEPT ![q] = Tail(@)]
               /\ log' = Append(log, <<cur, Head(data_queue[q])>>)
               /\ pc' = "step"
    /\ UNCHANGED <<ext, status, last_execution_time, topology, tasklet_queue, cur, wk_q,
                   wk_i, executed, system_time, send_q, ret, nsend, nclear, sent,
                   cleared>>

\* The step function returns without calling the runtime API.
StepReturn ==
    /\ pc = "step"
    /\ pc' = "set_time"
    /\ UNCHANGED <<ext, status, last_execution_time, topology, data_queue, tasklet_queue,
                   cur, val, wk_q, wk_i, executed, system_time, send_q, ret, nsend,
                   nclear, history>>

\* Mutant of StepSend: a send on a full queue stops the scheduler.
StepSend_FullHalts ==
    \E q \in Queues :
        /\ pc = "step"
        /\ nsend < MaxSends
        /\ nsend' = nsend + 1
        /\ send_q' = q
        /\ IF Len(data_queue[q]) >= QueueCapacity
           THEN /\ ret' = "DataQueueFull"
                /\ pc' = "halted"
                /\ UNCHANGED <<data_queue, sent, wk_q, wk_i>>
           ELSE /\ data_queue' = [data_queue EXCEPT ![q] = Append(@, nsend + 1)]
                /\ sent' = [sent EXCEPT ![q] = Append(@, nsend + 1)]
                /\ wk_q' = q
                /\ IF registered_tasklets[q] = <<>>
                   THEN /\ ret' = "Ok"
                        /\ pc' = "set_time"
                        /\ UNCHANGED wk_i
                   ELSE /\ ret' = "pending"
                        /\ wk_i' = 1
                        /\ pc' = "wake_read"
        /\ UNCHANGED <<ext, status, last_execution_time, topology, tasklet_queue, cur, val,
                       executed, system_time, nclear, log, cleared>>

\* The step function calls send_data: the enqueue under the queue's lock.
\* The wake_tasklets loop follows in WakeRead and WakePush.
StepSend ==
    \E q \in Queues :
        /\ pc = "step"
        /\ nsend < MaxSends
        /\ nsend' = nsend + 1
        /\ send_q' = q
        /\ IF Len(data_queue[q]) >= QueueCapacity
           THEN /\ ret' = "DataQueueFull"
                /\ pc' = "set_time"
                /\ UNCHANGED <<data_queue, sent, wk_q, wk_i>>
           ELSE /\ data_queue' = [data_queue EXCEPT ![q] = Append(@, nsend + 1)]
                /\ sent' = [sent EXCEPT ![q] = Append(@, nsend + 1)]
                /\ wk_q' = q
                /\ IF registered_tasklets[q] = <<>>
                   THEN /\ ret' = "Ok"
                        /\ pc' = "set_time"
                        /\ UNCHANGED wk_i
                   ELSE /\ ret' = "pending"
                        /\ wk_i' = 1
                        /\ pc' = "wake_read"
        /\ UNCHANGED <<ext, status, last_execution_time, topology, tasklet_queue, cur, val,
                       executed, system_time, nclear, log, cleared>>

\* wake_tasklets: the end of one iteration of `for t in &self.registered_tasklets`;
\* after the last one send_data returns Ok to the step, which returns.
WakeAdvance ==
    IF wk_i >= Len(registered_tasklets[wk_q])
    THEN /\ pc' = "set_time"
         /\ ret' = "Ok"
         /\ wk_i' = 0
    ELSE /\ pc' = "wake_read"
         /\ wk_i' = wk_i + 1
         /\ UNCHANGED ret

\* schedule_tasklet: tasklet.get_status() and the comparison with Sleeping
WakeRead ==
    /\ pc = "wake_read"
    /\ IF status[registered_tasklets[wk_q][wk_i]] = "Sleeping"
       THEN /\ pc' = "wake_push"
            /\ UNCHANGED <<wk_i, ret>>
       ELSE WakeAdvance
    /\ UNCHANGED <<ext, status, last_execution_time, topology, data_queue, tasklet_queue,
                   cur, val, wk_q, executed, system_time, send_q, nsend, nclear,
                   history>>

\* schedule_tasklet: add_tasklet_to_queue under the heap's lock; a failed
\* push is the panic of Aerugo::wake_tasklet.
WakePush ==
    /\ pc = "wake_push"
    /\ LET r == AddTaskletToQueue(status, tasklet_queue,
                                  registered_tasklets[wk_q][wk_i])
       IN /\ status' = r.status
          /\ tasklet_queue' = r.heap
          /\ IF r.ok THEN WakeAdvance
             ELSE /\ pc' = "halted"
                  /\ ret' = "panic"
                  /\ UNCHANGED wk_i
    /\ UNCHANGED <<ext, last_execution_time, topology, data_queue, cur, val, wk_q,
                   executed, system_time, send_q, nsend, nclear, history>>

\* Mutant of StepClear: clear() wakes the subscribers as send_data does.
StepClear_Wakes ==
    \E q \in Queues :
        /\ pc = "step"
        /\ nclear < MaxClears
        /\ nclear' = nclear + 1
        /\ data_queue' = [data_queue EXCEPT ![q] = <<>>]
        /\ cleared' = cleared \cup {data_queue[q][i] : i \in 1..Len(data_queue[q])}
        /\ LET r == WakeTasklets(status, tasklet_queue, registered_tasklets[q], 1)
           IN /\ status' = r.status
              /\ tasklet_queue' = r.heap
              /\ pc' = IF r.ok THEN "set_time" ELSE "halted"
        /\ UNCHANGED <<ext, last_execution_time, topology, cur, val, wk_q, wk_i, executed,
                       system_time, send_q, ret, nsend, log, sent>>

\* Mutant of StepClear: clear() also empties the queue's subscriber list.
StepClear_Unsubscribes ==
    \E q \in Queues :
        /\ pc = "step"
        /\ nclear < MaxClears
        /\ nclear' = nclear + 1
        /\ data_queue' = [data_queue EXCEPT ![q] = <<>>]
        /\ cleared' = cleared \cup {data_queue[q][i] : i \in 1..Len(data_queue[q])}
        /\ registered_tasklets' = [registered_tasklets EXCEPT ![q] = <<>>]
        /\ pc' = "set_time"
        /\ UNCHANGED <<ext, status, last_execution_time, data_provider, priority,
                       init_calls, watchdog, handler, tasklet_queue, cur, val, wk_q, wk_i, executed,
                       system_time, send_q, ret, nsend, log, sent>>

\* The step function calls clear() on a queue.
StepClear ==
    \E q \in Queues :
        /\ pc = "step"
        /\ nclear < MaxClears
        /\ nclear' = nclear + 1
        /\ data_queue' = [data_queue EXCEPT ![q] = <<>>]
        /\ cleared' = cleared \cup {data_queue[q][i] : i \in 1..Len(data_queue[q])}
        /\ pc' = "set_time"
        /\ UNCHANGED <<ext, status, last_execution_time, topology, tasklet_queue, cur, val,
                       wk_q, wk_i, executed, system_time, send_q, ret, nsend, log,
                       sent>>

\* execute_next_tasklet: tasklet.set_last_execution_time(AERUGO.get_system_time());
\* the instant read is not earlier than the last one read.
SetLastExecutionTime ==
    /\ pc = "set_time"
    /\ \E now \in system_time..(IF system_time > MaxTime THEN system_time ELSE MaxTime) :
          /\ system_time' = now
          /\ last_execution_time' = [last_execution_time EXCEPT ![cur] = now]
    /\ pc' = "has_work"
    /\ UNCHANGED <<ext, status, topology, data_queue, tasklet_queue, cur, val, wk_q, wk_i,
                   executed, send_q, ret, nsend, nclear, history>>

\* reschedule_tasklet: the has_work() test
RescheduleTasklet ==
    /\ pc = "has_work"
    /\ pc' = IF HasWork(cur) THEN "requeue" ELSE "set_sleeping"
    /\ UNCHANGED <<ext, status, last_execution_time, topology, data_queue, tasklet_queue,
                   cur, val, wk_q, wk_i, executed, system_time, send_q, ret, nsend,
                   nclear, history>>

\* reschedule_tasklet: add_tasklet_to_queue(tasklet.clone())?; a failed push
\* is returned to run_scheduler, which panics.
Requeue ==
    /\ pc = "requeue"
    /\ LET r == AddTaskletToQueue(status, tasklet_queue, cur)
       IN /\ status' = r.status
          /\ tasklet_queue' = r.heap
          /\ IF r.ok
             THEN /\ pc' = "loop"
                  /\ cur' = 0
                  /\ val' = 0
                  /\ wk_q' = 0
                  /\ executed' = TRUE
             ELSE /\ pc' = "halted"
                  /\ UNCHANGED <<cur, val, wk_q, executed>>
    /\ UNCHANGED <<ext, last_execution_time, topology, data_queue, wk_i, system_time,
                   send_q, ret, nsend, nclear, history>>

\* Mutant of SetSleeping: the status is left as it is at the end of the turn.
SetSleeping_KeepsWorking ==
    /\ pc = "set_sleeping"
    /\ pc' = "loop"
    /\ cur' = 0
    /\ val' = 0
    /\ wk_q' = 0
    /\ executed' = TRUE
    /\ UNCHANGED <<ext, status, last_execution_time, topology, data_queue, tasklet_queue,
                   wk_i, system_time, send_q, ret, nsend, nclear, history>>

\* execute_next_tasklet: tasklet.set_status(TaskStatus::Sleeping), Ok(true)
SetSleeping ==
    /\ pc = "set_sleeping"
    /\ status' = [status EXCEPT ![cur] = "Sleeping"]
    /\ pc' = "loop"
    /\ cur' = 0
    /\ val' = 0
    /\ wk_q' = 0
    /\ executed' = TRUE
    /\ UNCHANGED <<ext, last_execution_time, topology, data_queue, tasklet_queue, wk_i,
                   system_time, send_q, ret, nsend, nclear, history>>

Next ==
    \/ InitSend
    \/ Start
    \/ IsrSend
    \/ GetTaskletForExecution
    \/ SetWorking
    \/ Execute
    \/ StepReturn
    \/ StepSend
    \/ WakeRead
    \/ WakePush
    \/ StepClear
    \/ SetLastExecutionTime
    \/ RescheduleTasklet
    \/ Requeue
    \/ SetSleeping

Spec == Init /\ [][Next]_vars

\* ================================================================ events
\* The tasklets whose event set contains event e, in the order of add_set.
RECURSIVE EventSetsUpTo(_, _, _)
EventSetsUpTo(m, e, n) ==
    IF n = 0 THEN <<>>
    ELSE LET r == EventSetsUpTo(m, e, n - 1)
         IN IF e \in m[n] THEN Append(r, n) ELSE r

\* Every tasklet is subscribed to a non-empty set of events.
InitEvents ==
    /\ InitExecutor /\ NoQueues /\ NoConditions /\ NoCyclic
    /\ provider_kind = [t \in Tasklets |-> "event_set"]
    /\ \E m \in [Tasklets -> (SUBSET EventIds) \ {{}}] :
          sets = [e \in EventIds |-> EventSetsUpTo(m, e, TASKLET_COUNT)]
    /\ active = [t \in Tasklets |-> {}]

\* EventSet::activate_event on (status, heap, pending sets): the bit of e is
\* set in the set of tasklet t and t is woken.
ActivateEvent(st, h, ac, t, e) ==
    LET r == ScheduleTasklet(st, h, t)
    IN [status |-> r.status, heap |-> r.heap, ok |-> r.ok,
        active |-> [ac EXCEPT ![t] = @ \cup {e}]]

\* Event::emit from the i-th set of the event on; a failed activation is the
\* panic of expect().
RECURSIVE Emit(_, _, _, _, _)
Emit(st, h, ac, e, i) ==
    IF i > Len(sets[e]) THEN [status |-> st, heap |-> h, ok |-> TRUE, active |-> ac]
    ELSE LET r == ActivateEvent(st, h, ac, sets[e][i], e)
         IN IF r.ok THEN Emit(r.status, r.heap, r.active, e, i + 1) ELSE r

\* RuntimeApi::emit_event, under the critical section; `next` is the
\* position of the main thread when the call returns.
EmitEvent(e, next) ==
    /\ nemit < MaxEmits
    /\ nemit' = nemit + 1
    /\ emitted' = Append(emitted, e)
    /\ LET r == Emit(status, tasklet_queue, active, e, 1)
       IN /\ status' = r.status
          /\ tasklet_queue' = r.heap
          /\ active' = r.active
          /\ ret' = IF r.ok THEN "Ok" ELSE "panic"
          /\ pc' = IF r.ok THEN next ELSE "halted"
    /\ UNCHANGED <<last_execution_time, topology, cur, val, executed, system_time,
                   log, queues, provider_kind, sets, conditions, cyclic>>

\* An emit issued by the application before the scheduler is started.
InitEmit == \E e \in EventIds : pc = "init" /\ EmitEvent(e, "init")

\* An emit issued by an interrupt handler while the scheduler runs.
IsrEmit == \E e \in EventIds : Started /\ pc # "halted" /\ EmitEvent(e, pc)

\* The step function calls emit_event.
StepEmit == \E e \in EventIds : pc = "step" /\ EmitEvent(e, "set_time")

\* Mutant of NextActiveEvent: the highest-numbered pending event.
NextActiveEvent_Highest(ac) == CHOOSE e \in ac : \A d \in ac : e >= d

\* The lowest-numbered pending event of a set.
NextActiveEvent(ac) == CHOOSE e \in ac : \A d \in ac : e <= d

\* Tasklet::execute of a tasklet bound to an event set: get_data takes the
\* next active event and clears its bit, then the step function runs.
ExecuteEventSet ==
    /\ pc = "execute"
    /\ provider_kind[cur] = "event_set"
    /\ IF active[cur] = {}
       THEN /\ pc' = "set_time"
            /\ UNCHANGED <<active, val, log>>
       ELSE /\ val' = NextActiveEvent(active[cur])
            /\ active' = [active EXCEPT ![cur] = @ \ {NextActiveEvent(active[cur])}]
            /\ log' = Append(log, <<cur, NextActiveEvent(active[cur])>>)
            /\ pc' = "step"
    /\ UNCHANGED <<status, last_execution_time, topology, tasklet_queue, cur,
                   executed, system_time, ret, queues, provider_kind, sets, nemit,
                   emitted, conditions, cyclic>>

\* The main thread once the scheduler runs, for tasklets bound to event sets.
MainThreadEvents ==
    \/ GetTaskletForExecution
    \/ SetWorking
    \/ ExecuteEventSet
    \/ StepReturn
    \/ StepEmit
    \/ SetLastExecutionTime
    \/ RescheduleTasklet
    \/ Requeue
    \/ SetSleeping

NextEvents ==
    \/ InitEmit
    \/ Start
    \/ IsrEmit
    \/ GetTaskletForExecution
    \/ SetWorking
    \/ ExecuteEventSet
    \/ StepReturn
    \/ StepEmit
    \/ SetLastExecutionTime
    \/ RescheduleTasklet
    \/ Requeue
    \/ SetSleeping

SpecEvents == InitEvents /\ [][NextEvents]_vars

\* The application starts the scheduler and the main thread keeps running;
\* interrupt handlers may or may not fire.
SpecEventsFair ==
    SpecEvents /\ WF_vars(Start) /\ WF_vars(MainThreadEvents)

\* ============================================================== claims
\* The tasklets registered to queue q.
Subscribers(q) ==
    {registered_tasklets[q][i] : i \in 1..Len(registered_tasklets[q])}

\* The values of queue q handed to step functions, in the order of the steps.
Delivered(q) ==
    LET s == SelectSeq(log, LAMBDA e : data_provider[e[1]] = q)
    IN [i \in 1..Len(s) |-> s[i][2]]

\* The step is a whole send_data call: one issued before the start or by an
\* interrupt handler.  Every other step is a step of the main thread.
AtomicSend == nsend' # nsend /\ pc' \in {pc, "halted"}

\* The step completes a schedule_tasklet(t) call.
WakeCompletes(t) ==
    \/ /\ AtomicSend
       /\ sent'[send_q'] # sent[send_q']
       /\ t \in Subscribers(send_q')
    \/ /\ ~AtomicSend
       /\ \/ pc = "wake_push"
          \/ pc = "wake_read" /\ pc' # "wake_push"
       /\ t = registered_tasklets[wk_q][wk_i]

\* C1: wake(T) is idempotent.  A wake of a Sleeping T sets it to Waiting and
\* pushes it once; a wake of a Waiting or Working T changes neither its status
\* nor the heap; so a woken T that was not picked for execution yet is in the
\* heap exactly once.
C1_WakeIdempotent ==
    [][\A t \in Tasklets :
          WakeCompletes(t) =>
              /\ IF status[t] = "Sleeping"
                 THEN /\ status'[t] = "Waiting"
                      /\ tasklet_queue'[t] = tasklet_queue[t] + 1
                 ELSE /\ status'[t] = status[t]
                      /\ tasklet_queue'[t] = tasklet_queue[t]
              /\ status'[t] = "Waiting" /\ t # cur => tasklet_queue'[t] = 1]_vars

\* C2: a loop turn of the executor on a non-empty heap pops the top tasklet,
\* sets it Working, executes it, records the last-execution instant and then
\* either pushes it back with status Waiting (has_work() true) or sets it
\* Sleeping; a turn on an empty heap changes no status and no heap content.
C2_LoopTurnOrder ==
    [][~AtomicSend =>
          /\ pc = "loop" =>
                IF HeapLen(tasklet_queue) = 0
                THEN pc' = "loop" /\ status' = status /\ tasklet_queue' = tasklet_queue
                ELSE /\ pc' = "set_working"
                     /\ cur' = HeapTop(tasklet_queue)
                     /\ tasklet_queue' = HeapPop(tasklet_queue)
                     /\ status' = status
          /\ pc = "set_working" =>
                pc' = "execute" /\ status' = [status EXCEPT ![cur] = "Working"]
          /\ pc = "execute" => pc' \in {"step", "set_time"} /\ status' = status
          /\ pc = "set_time" =>
                pc' = "has_work" /\ last_execution_time'[cur] = system_time'
          /\ pc = "has_work" =>
                pc' = IF HasWork(cur) THEN "requeue" ELSE "set_sleeping"
          /\ pc = "requeue" =>
                /\ pc' = "loop"
                /\ status' = [status EXCEPT ![cur] = "Waiting"]
                /\ tasklet_queue' = HeapPush(tasklet_queue, cur)
          /\ pc = "set_sleeping" =>
                /\ pc' = "loop"
                /\ status' = [status EXCEPT ![cur] = "Sleeping"]
                /\ tasklet_queue' = tasklet_queue]_vars

\* C3: the tasklet popped for execution has the highest priority among the
\* tasklets that are in the heap at that moment.
C3_PopsHighestPriority ==
    [][pc = "loop" /\ pc' = "set_working" =>
          /\ tasklet_queue[cur'] > 0
          /\ \A u \in Tasklets :
                tasklet_queue[u] > 0 => priority[u] <= priority[cur']]_vars

\* C3 witness: B (priority 1) was woken by the first send, A (priority 5) by
\* the second one, and the first pop of the executor takes A.
C3_Witness ==
    \E a, b \in Tasklets :
        /\ priority[a] = 5 /\ priority[b] = 1
        /\ sent[data_provider[b]] = <<1>> /\ sent[data_provider[a]] = <<2>>
        /\ pc = "set_working" /\ cur = a /\ log = <<>>
        /\ tasklet_queue[b] = 1

\* C4: at most one tasklet is Working, it is the one the executor runs, and a
\* step starts only from the executor's execute call, never while another
\* step is in flight, whatever the interrupt handlers send meanwhile.
C4_SingleStepInFlight ==
    /\ [](/\ Cardinality({t \in Tasklets : status[t] = "Working"}) <= 1
          /\ \A t \in Tasklets :
                status[t] = "Working" =>
                    t = cur /\ pc \notin {"init", "loop", "set_working"}
          /\ pc \in {"step", "wake_read", "wake_push"} =>
                status[cur] = "Working" /\ val # 0)
    /\ [][log' # log =>
             /\ pc = "execute" /\ pc' = "step"
             /\ Len(log') = Len(log) + 1
             /\ log'[Len(log')][1] = cur
             /\ status[cur] = "Working"]_vars

\* C4 witness: an interrupt handler has woken the tasklet that the running
\* step is about to push, while the step's tasklet is Working.
C4_Witness ==
    /\ pc = "wake_push"
    /\ status[cur] = "Working"
    /\ status[registered_tasklets[wk_q][wk_i]] = "Waiting"

\* C5: a Working tasklet T whose step wakes T itself is not pushed into the
\* heap during the step; at the end of the loop turn has_work() is true and T
\* is re-queued exactly once.
C5_SelfWakeRequeuedOnce ==
    [][/\ pc \in {"step", "wake_read", "wake_push"} =>
             tasklet_queue'[cur] = tasklet_queue[cur] /\ status'[cur] = "Working"
       /\ ~AtomicSend /\ cur # 0 /\ wk_q = data_provider[cur] =>
             /\ pc = "has_work" => pc' = "requeue"
             /\ pc = "requeue" =>
                   /\ pc' = "loop"
                   /\ status'[cur] = "Waiting"
                   /\ tasklet_queue'[cur] = tasklet_queue[cur] + 1]_vars

\* C6: the heap never holds more entries than there are tasklets, so no push
\* fails with ExecutorTaskletQueueFull.
C6_HeapNeverFull ==
    /\ HeapLen(tasklet_queue) <= TASKLET_COUNT
    /\ pc # "halted"
    /\ ret # "panic"

\* C7: values are dequeued in the order they were enqueued: for every queue
\* the values handed to steps followed by the values still queued are the
\* values successfully sent (less those removed by clear); get_data on an
\* empty queue yields no data.
C7_Fifo ==
    /\ [](\A q \in Queues :
             Delivered(q) \o data_queue[q]
                 = SelectSeq(sent[q], LAMBDA v : v \notin cleared))
    /\ [][~AtomicSend /\ pc = "execute" /\ data_queue[data_provider[cur]] = <<>> =>
             log' = log /\ val' = val /\ data_queue' = data_queue]_vars

\* C7 witness: 1, 2, 3 sent to one queue were handed to its consumer in that order.
C7_Witness ==
    \E t \in Tasklets :
        /\ log = <<<<t, 1>>, <<t, 2>>, <<t, 3>>>>
        /\ sent[data_provider[t]] = <<1, 2, 3>>

\* C8: a send on a queue that holds QueueCapacity elements returns
\* DataQueueFull, leaves every queue as it is and wakes no tasklet; a send on
\* a queue with room appends the value.
C8_FullQueueRejects ==
    [][nsend' # nsend =>
          IF Len(data_queue[send_q']) >= QueueCapacity
          THEN /\ ret' = "DataQueueFull"
               /\ data_queue' = data_queue
               /\ sent' = sent
               /\ status' = status
               /\ tasklet_queue' = tasklet_queue
          ELSE /\ ret' # "DataQueueFull"
               /\ data_queue' = [data_queue EXCEPT
                                    ![send_q'] = Append(@, nsend + 1)]]_vars

\* C8 witness: capacity 2, sends 1, 2, 3 before the start: the third send
\* failed and the consumer has logged 1 and 2.
C8_Witness ==
    \E t \in Tasklets :
        /\ QueueCapacity = 2
        /\ sent[data_provider[t]] = <<1, 2>>
        /\ nsend = 3 /\ ret = "DataQueueFull" /\ send_q = data_provider[t]
        /\ log = <<<<t, 1>>, <<t, 2>>>>
        /\ pc = "loop" /\ HeapLen(tasklet_queue) = 0

C10_ClearDrainsSilently ==
    /\ [](\A i \in 1..Len(log) : log[i][2] \notin cleared)
    /\ [][nclear' # nclear =>
             /\ status' = status
             /\ tasklet_queue' = tasklet_queue
             /\ \E q \in Queues :
                   /\ data_queue' = [data_queue EXCEPT ![q] = <<>>]
                   /\ cleared' = cleared \cup
                          {data_queue[q][i] : i \in 1..Len(data_queue[q])}]_vars
    /\ [][~AtomicSend /\ cur # 0 /\ ~HasWork(cur) =>
             /\ pc = "execute" => pc' = "set_time" /\ log' = log
             /\ pc = "has_work" => pc' = "set_sleeping"
             /\ pc = "set_sleeping" => status'[cur] = "Sleeping"]_vars

\* C10 witness: every value sent to the queue of the popped tasklet was
\* removed by clear while it was Waiting; it ran no step and goes to Sleeping.
C10_Witness ==
    /\ pc = "set_sleeping" /\ val = 0
    /\ sent[data_provider[cur]] # <<>>
    /\ \A i \in 1..Len(sent[data_provider[cur]]) :
          sent[data_provider[cur]][i] \in cleared
    /\ Delivered(data_provider[cur]) = <<>>

\* ============================================================ conditions
\* Every tasklet is subscribed to a non-empty set of conditions with a rule;
\* every condition is created with the value false.  Conditions are
\* interchangeable, so they are numbered in the order of their first use.
InitConditions ==
    /\ InitExecutor /\ NoQueues /\ NoEvents /\ NoCyclic
    /\ provider_kind = [t \in Tasklets |-> "condition_set"]
    /\ cond_value = [c \in Conditions |-> FALSE]
    /\ cond_members \in [Tasklets -> (SUBSET Conditions) \ {{}}]
    /\ \A t \in Tasklets : \A c \in cond_members[t] :
          c > 1 => \E u \in 1..t : (c - 1) \in cond_members[u]
    /\ cond_rule \in [Tasklets -> {"AllTrue", "AnyTrue"}]

\* Mutant of NotifySets: every set that contains the condition wakes its
\* tasklet, whatever its rule evaluates to.
RECURSIVE NotifySets_Always(_, _, _, _, _)
NotifySets_Always(st, h, v, c, n) ==
    IF n > TASKLET_COUNT THEN [status |-> st, heap |-> h, ok |-> TRUE]
    ELSE IF c \in cond_members[n]
         THEN LET r == ScheduleTasklet(st, h, n)
              IN IF r.ok THEN NotifySets_Always(r.status, r.heap, v, c, n + 1) ELSE r
         ELSE NotifySets_Always(st, h, v, c, n + 1)

\* The re-evaluation after condition c changed, from the set of tasklet n on:
\* a set that contains c and whose rule holds over the values v wakes its
\* tasklet.
RECURSIVE NotifySets(_, _, _, _, _)
NotifySets(st, h, v, c, n) ==
    IF n > TASKLET_COUNT THEN [status |-> st, heap |-> h, ok |-> TRUE]
    ELSE IF c \in cond_members[n] /\ Evaluate(v, n)
         THEN LET r == ScheduleTasklet(st, h, n)
              IN IF r.ok THEN NotifySets(r.status, r.heap, v, c, n + 1) ELSE r
         ELSE NotifySets(st, h, v, c, n + 1)

\* RuntimeApi::set_boolean_condition, under the critical section: the value
\* is stored and, when it changed, the sets of the condition are notified.
SetCondition(c, v, next) ==
    /\ nset < MaxSets
    /\ nset' = nset + 1
    /\ set_calls' = Append(set_calls, <<c, v>>)
    /\ cond_value' = [cond_value EXCEPT ![c] = v]
    /\ IF v = cond_value[c]
       THEN /\ pc' = next
            /\ UNCHANGED <<status, tasklet_queue, ret>>
       ELSE LET r == NotifySets(status, tasklet_queue,
                                [cond_value EXCEPT ![c] = v], c, 1)
            IN /\ status' = r.status
               /\ tasklet_queue' = r.heap
               /\ ret' = IF r.ok THEN "Ok" ELSE "panic"
               /\ pc' = IF r.ok THEN next ELSE "halted"
    /\ UNCHANGED <<last_execution_time, topology, cur, val, executed, system_time,
                   log, queues, provider_kind, events, cond_members, cond_rule,
                   cyclic>>

\* A set issued by the application before the scheduler is started.
InitSetCondition ==
    \E c \in Conditions, v \in BOOLEAN : pc = "init" /\ SetCondition(c, v, "init")

\* A set issued by an interrupt handler while the scheduler runs.
IsrSetCondition ==
    \E c \in Conditions, v \in BOOLEAN :
        Started /\ pc # "halted" /\ SetCondition(c, v, pc)

\* The step function calls set_boolean_condition.
StepSetCondition ==
    \E c \in Conditions, v \in BOOLEAN : pc = "step" /\ SetCondition(c, v, "set_time")

\* Tasklet::execute of a tasklet bound to a condition set: get_data yields
\* the current value of the set, then the step function runs.
ExecuteConditionSet ==
    /\ pc = "execute"
    /\ provider_kind[cur] = "condition_set"
    /\ Len(log) < MaxSteps
    /\ val' = Evaluate(cond_value, cur)
    /\ log' = Append(log, <<cur, Evaluate(cond_value, cur)>>)
    /\ pc' = "step"
    /\ UNCHANGED <<status, last_execution_time, topology, tasklet_queue, cur,
                   executed, system_time, ret, queues, provider_kind, events,
                   conditions, cyclic>>

NextConditions ==
    \/ InitSetCondition
    \/ Start
    \/ IsrSetCondition
    \/ GetTaskletForExecution
    \/ SetWorking
    \/ ExecuteConditionSet
    \/ StepReturn
    \/ StepSetCondition
    \/ SetLastExecutionTime
    \/ RescheduleTasklet
    \/ Requeue
    \/ SetSleeping

SpecConditions == InitConditions /\ [][NextConditions]_vars

\* ========================================================== time manager
\* Every tasklet is bound to a cyclic execution; a period lasts at least one
\* tick of the clock.
InitCyclic ==
    /\ InitExecutor /\ NoQueues /\ NoEvents /\ NoConditions
    /\ provider_kind = [t \in Tasklets |-> "cyclic"]
    /\ period \in [Tasklets -> {{}} \cup {{p} : p \in 1..MaxPeriod}]
    /\ next_execution_time \in [Tasklets -> 0..MaxOffset]
    /\ cyclic_executions =
           [i \in 1..TASKLET_COUNT |-> [tasklet |-> i, period |-> period[i]]]

\* Mutant of Advance: one period is added, missed periods are not skipped.
Advance_SinglePeriod(next, now, p) == IF now >= next THEN next + p ELSE next

\* Mutant of Advance: the loop stops as soon as next reaches now.
RECURSIVE Advance_OffByOne(_, _, _)
Advance_OffByOne(next, now, p) ==
    IF now > next THEN Advance_OffByOne(next + p, now, p) ELSE next

\* wake_if_should_execute: while current_time >= *next { *next += period }
RECURSIVE Advance(_, _, _)
Advance(next, now, p) ==
    IF now >= next THEN Advance(next + p, now, p) ELSE next

\* Mutant of WakeIfShouldExecute: a record without a period is woken only
\* when its next execution time has come.
WakeIfShouldExecute_NoPeriodChecksTime(st, h, nx, t, now) ==
    IF now >= nx[t]
    THEN LET r == ScheduleTasklet(st, h, t)
         IN [status |-> r.status, heap |-> r.heap, ok |-> r.ok,
             next |-> IF period[t] # {} /\ r.ok
                      THEN [nx EXCEPT ![t] =
                               Advance(@, now, CHOOSE p \in period[t] : TRUE)]
                      ELSE nx]
    ELSE [status |-> st, heap |-> h, ok |-> TRUE, next |-> nx]

\* CyclicExecution::wake_if_should_execute of the record of tasklet t on
\* (status, heap, next execution times); a failed wake is a panic.
WakeIfShouldExecute(st, h, nx, t, now) ==
    IF period[t] # {}
    THEN IF now >= nx[t]
         THEN LET r == ScheduleTasklet(st, h, t)
              IN [status |-> r.status, heap |-> r.heap, ok |-> r.ok,
                  next |-> IF r.ok
                           THEN [nx EXCEPT ![t] =
                                    Advance(@, now, CHOOSE p \in period[t] : TRUE)]
                           ELSE nx]
         ELSE [status |-> st, heap |-> h, ok |-> TRUE, next |-> nx]
    ELSE LET r == ScheduleTasklet(st, h, t)
         IN [status |-> r.status, heap |-> r.heap, ok |-> r.ok, next |-> nx]

\* TimeManager::wake_tasklets from the n-th cyclic execution on.
RECURSIVE WakeCyclic(_, _, _, _, _)
WakeCyclic(st, h, nx, now, n) ==
    IF n > TASKLET_COUNT THEN [status |-> st, heap |-> h, ok |-> TRUE, next |-> nx]
    ELSE LET r == WakeIfShouldExecute(st, h, nx, n, now)
         IN IF r.ok THEN WakeCyclic(r.status, r.heap, r.next, now, n + 1) ELSE r

\* The tick interrupt of the platform: the time manager wakes the cyclic
\* tasklets with the current instant, which never goes back.
Tick ==
    \E now \in system_time..MaxTick :
        /\ Started /\ pc # "halted"
        /\ ntick < MaxTicks
        /\ ntick' = ntick + 1
        /\ system_time' = now
        /\ LET r == WakeCyclic(status, tasklet_queue, next_execution_time, now, 1)
           IN /\ status' = r.status
              /\ tasklet_queue' = r.heap
              /\ next_execution_time' = r.next
              /\ ret' = IF r.ok THEN ret ELSE "panic"
              /\ pc' = IF r.ok THEN pc ELSE "halted"
        /\ UNCHANGED <<last_execution_time, topology, cur, val, executed, log,
                       queues, provider_kind, events, conditions, period,
                       cyclic_executions>>

\* Tasklet::execute of a tasklet bound to a cyclic execution: get_data
\* yields Some(()), so the step function runs.
ExecuteCyclic ==
    /\ pc = "execute"
    /\ provider_kind[cur] = "cyclic"
    /\ val' = "unit"
    /\ log' = Append(log, <<cur, "unit">>)
    /\ pc' = "step"
    /\ UNCHANGED <<status, last_execution_time, topology, tasklet_queue, cur,
                   executed, system_time, ret, queues, provider_kind, events,
                   conditions, cyclic>>

NextCyclic ==
    \/ Start
    \/ Tick
    \/ GetTaskletForExecution
    \/ SetWorking
    \/ ExecuteCyclic
    \/ StepReturn
    \/ SetLastExecutionTime
    \/ RescheduleTasklet
    \/ SetSleeping

SpecCyclic == InitCyclic /\ [][NextCyclic]_vars

\* --------------------------------------------------------- events claims
\* The event ids handed to the steps of tasklet t, in the order of the steps.
Handed(t) ==
    LET l == SelectSeq(log, LAMBDA x : x[1] = t)
    IN [i \in 1..Len(l) |-> l[i][2]]

\* The ids emitted so far that are registered in the set of tasklet t.
EmittedTo(t) ==
    SelectSeq(emitted, LAMBDA e : \E i \in 1..Len(sets[e]) : sets[e][i] = t)

IsPrefix(a, b) == Len(a) <= Len(b) /\ a = SubSeq(b, 1, Len(a))

\* C11: once emit(E) has returned, in every set in which E is registered the
\* bit of E is pending or E was handed to a step of the owning tasklet, and
\* no tasklet is Sleeping while a bit of its set is pending.
C11_EmitReachesOwner ==
    /\ \A t \in Tasklets : \A i \in 1..Len(EmittedTo(t)) :
          \/ EmittedTo(t)[i] \in active[t]
          \/ \E j \in 1..Len(Handed(t)) : Handed(t)[j] = EmittedTo(t)[i]
    /\ \A t \in Tasklets : active[t] # {} => status[t] # "Sleeping"

\* C12: get_data of an event set with pending events hands over the
\* lowest-numbered pending id and clears exactly that bit; with no pending
\* event it hands over nothing; data_ready (the has_work test) is true iff
\* an event is pending.
C12_LowestPendingFirst ==
    [][nemit' = nemit /\ cur # 0 =>
          /\ pc = "execute" =>
                IF active[cur] = {}
                THEN log' = log /\ active' = active /\ pc' = "set_time"
                ELSE /\ val' \in active[cur]
                     /\ \A d \in active[cur] : val' <= d
                     /\ active' = [active EXCEPT ![cur] = @ \ {val'}]
                     /\ log' = Append(log, <<cur, val'>>)
          /\ pc = "has_work" =>
                (pc' = "requeue" <=> active[cur] # {})]_vars

\* C12 witness: 11 and 10 were pending together, 10 was handed to the step
\* and 11 is still pending.
C12_Witness ==
    /\ pc = "step" /\ val = 10
    /\ emitted = <<11, 10>>
    /\ active[cur] = {11}
    /\ log = <<<<cur, 10>>>>

\* C13: a tasklet receives the ids emitted to its set one per step in the
\* order of emission: the ids handed over so far are a prefix of the ids
\* emitted, and all of them once nothing is pending any more (emitting 11,
\* 10, 11 gives the log 11, 10, 11).
C13_OrderOfEmission ==
    \A t \in Tasklets :
        /\ IsPrefix(Handed(t), EmittedTo(t))
        /\ active[t] = {} => Handed(t) = EmittedTo(t)

\* C14: every event id pending in an event set is eventually handed to a
\* step of the owning tasklet, which clears its bit.
C14_PendingEventuallyHanded ==
    \A t \in Tasklets : \A e \in EventIds :
        (e \in active[t]) ~> (e \notin active[t])

\* ----------------------------------------------------- conditions claims
\* The rule of the set of tasklet t over the values v, spelled out.
RuleHolds(v, t) ==
    \/ cond_rule[t] = "AllTrue" /\ \A c \in cond_members[t] : v[c] = TRUE
    \/ cond_rule[t] = "AnyTrue" /\ \E c \in cond_members[t] : v[c] = TRUE

\* The value given by the latest set call on condition c (false before any).
LastSet(c) ==
    LET l == SelectSeq(set_calls, LAMBDA x : x[1] = c)
    IN IF l = <<>> THEN FALSE ELSE l[Len(l)][2]

C16_AllTrueScenario ==
    \A t \in Tasklets :
        cond_rule[t] = "AllTrue" /\ cond_members[t] = {1, 2} =>
            /\ set_calls = <<<<1, TRUE>>>> => Len(Handed(t)) = 0
            /\ set_calls = <<<<1, TRUE>>, <<2, TRUE>>>> => Len(Handed(t)) <= 1
            /\ set_calls = <<<<1, TRUE>>, <<2, TRUE>>, <<1, FALSE>>>> =>
                  Len(Handed(t)) <= 1

\* C17: data_ready of a condition set (the has_work test) is true exactly
\* when its rule holds over the current values, the current value of every
\* condition is the one of the latest set call, and the value handed to a
\* step is the rule over the values current at the hand-off.
C17_CurrentValueObserved ==
    /\ [](\A c \in Conditions : cond_value[c] = LastSet(c))
    /\ [][nset' = nset /\ cur # 0 =>
             /\ pc = "has_work" =>
                   (pc' = "requeue" <=> RuleHolds(cond_value, cur))
             /\ pc = "execute" =>
                   log' = Append(log, <<cur, RuleHolds([c \in Conditions |-> LastSet(c)],
                                                       cur)>>)]_vars

\* C17 witness: the tasklet was woken by a set to true, the condition was
\* set back to false before its step, and the step observes false.
C17_Witness ==
    /\ pc = "step" /\ val = FALSE
    /\ set_calls = <<<<1, TRUE>>, <<1, FALSE>>>>
    /\ cond_members[cur] = {1}
    /\ log = <<<<cur, FALSE>>>>

\* --------------------------------------------------- time manager claims
\* The wake of tasklet t has happened exactly once in this step: a Sleeping
\* t is Waiting with one more heap entry, any other t is as it was.
WokenOnce(t) ==
    IF status[t] = "Sleeping"
    THEN status'[t] = "Waiting" /\ tasklet_queue'[t] = tasklet_queue[t] + 1
    ELSE status'[t] = status[t] /\ tasklet_queue'[t] = tasklet_queue[t]

NotWoken(t) == status'[t] = status[t] /\ tasklet_queue'[t] = tasklet_queue[t]

\* C18: a tick at time now wakes the tasklet of every periodic record with
\* next_execution_time <= now exactly once, however many periods fit in the
\* gap, and the record is not due at now any more; so a tasklet never
\* executes more often than ticks have occurred.
C18_MissedDeadlinesCoalesce ==
    /\ [](\A t \in Tasklets : Len(Handed(t)) <= ntick /\ tasklet_queue[t] <= 1)
    /\ [][ntick' # ntick =>
             \A t \in Tasklets :
                period[t] # {} /\ next_execution_time[t] <= system_time' =>
                    WokenOnce(t) /\ next_execution_time'[t] > system_time']_vars

\* C18 witness: period 2, offset 0, a single tick at time 9 (four and a half
\* periods): the tasklet has executed exactly once and sleeps again.
C18_Witness ==
    \E t \in Tasklets :
        /\ period[t] = {2} /\ ntick = 1 /\ system_time = 9
        /\ next_execution_time[t] = 10
        /\ Handed(t) = <<"unit">>
        /\ status[t] = "Sleeping" /\ pc = "loop" /\ HeapLen(tasklet_queue) = 0

\* C19: for a record with period P, a tick at time now >= next sets
\* next_execution_time to next + k*P with k = ceil((now - next + 1)/P), which
\* exceeds now by at least one and at most P; a tick at time now < next
\* wakes nothing and leaves next_execution_time as it was.
C19_NextExecutionTime ==
    [][ntick' # ntick =>
          \A t \in Tasklets : \A P \in period[t] :
             LET now == system_time'
                 next == next_execution_time[t]
                 k == (now - next + 1 + (P - 1)) \div P
             IN IF now >= next
                THEN /\ next_execution_time'[t] = next + k * P
                     /\ next_execution_time'[t] > now
                     /\ next_execution_time'[t] - now <= P
                ELSE /\ next_execution_time'[t] = next
                     /\ NotWoken(t)]_vars

\* C19 witness: period 2, offset 1: a single tick at time 4 has moved the
\* next execution time from 1 to 5 (k = 2).
C19_Witness ==
    \E t \in Tasklets :
        /\ period[t] = {2} /\ ntick = 1 /\ system_time = 4
        /\ next_execution_time[t] = 5
        /\ status[t] = "Waiting" /\ log = <<>>

C21_NotWokenBeforeOffset ==
    [][ntick' # ntick =>
          \A t \in Tasklets :
              system_time' < next_execution_time[t] => NotWoken(t)]_vars

\* C22: a tasklet bound to a cyclic execution is in the heap at most once and
\* only while Waiting; a loop turn on it runs exactly one step; has_work() is
\* false after the step, so it is never pushed back and is set Sleeping; it
\* never executes more often than ticks have woken it.
C22_OneStepPerWake ==
    /\ [](\A t \in Tasklets :
             /\ tasklet_queue[t] <= 1
             /\ tasklet_queue[t] = 1 => status[t] = "Waiting"
             /\ Len(Handed(t)) <= ntick)
    /\ [][ntick' = ntick /\ cur # 0 =>
             /\ pc = "execute" =>
                   pc' = "step" /\ log' = Append(log, <<cur, "unit">>)
             /\ pc # "execute" => log' = log
             /\ pc = "has_work" => pc' = "set_sleeping"
             /\ pc = "set_sleeping" =>
                   /\ status'[cur] = "Sleeping"
                   /\ tasklet_queue' = tasklet_queue
                   /\ tasklet_queue[cur] = 0]_vars

\* C22 witness: two ticks, the second while the tasklet was Working (its wake
\* was not accepted): the tasklet has run one step and goes to Sleeping.
C22_Witness ==
    /\ pc = "set_sleeping" /\ ntick = 2
    /\ Handed(cur) = <<"unit">>
    /\ status[cur] = "Working" /\ tasklet_queue[cur] = 0
    /\ \A t \in Tasklets : t # cur => period[t] # {} /\ Handed(t) = <<>>

\* ------------------------------------------------------ Tasklet::execute
\* Tasklet::execute as a function of the tasklet and its provider: the
\* executor is about to call execute() on `cur`, which is bound to no
\* provider, to a queue or to a cyclic execution; the first queue holds any
\* content of values 1..MaxSends up to its capacity.
BoundedSeqs(n) ==
    UNION {[1..k -> 1..MaxSends] : k \in 0..n}

InitExecute ==
    /\ pc = "execute"
    /\ cur \in Tasklets
    /\ status = [t \in Tasklets |-> IF t = cur THEN "Working" ELSE "Sleeping"]
    /\ last_execution_time = [t \in Tasklets |-> 0]
    /\ priority = [t \in Tasklets |-> 1]
    /\ \E k \in {"none", "queue", "cyclic"} :
          provider_kind = [t \in Tasklets |-> IF t = cur THEN k ELSE "none"]
    /\ \E q \in Queues :
          data_provider =
              [t \in Tasklets |->
                  IF provider_kind[t] = "queue" THEN q ELSE 0]
    /\ registered_tasklets =
           [q \in Queues |-> SubscribersUpTo(data_provider, q, TASKLET_COUNT)]
    /\ \E content \in BoundedSeqs(QueueCapacity) :
          data_queue = [q \in Queues |-> IF q = 1 THEN content ELSE <<>>]
    /\ sent = data_queue
    /\ tasklet_queue = [t \in Tasklets |-> 0]
    /\ val = 0 /\ wk_q = 0 /\ wk_i = 0
    /\ executed = FALSE
    /\ system_time = 0
    /\ send_q = 0 /\ ret = "none"
    /\ nsend = 0 /\ nclear = 0 /\ nemit = 0 /\ nset = 0 /\ ntick = 0
    /\ log = <<>> /\ cleared = {}
    /\ emitted = <<>> /\ set_calls = <<>> /\ init_calls = <<>>
    /\ NewWatchdog /\ HandlerIdle
    /\ NoEvents /\ NoConditions /\ NoCyclic

\* Tasklet::execute of a tasklet without a provider: `None => return`
ExecuteNoProvider ==
    /\ pc = "execute"
    /\ provider_kind[cur] = "none"
    /\ pc' = "set_time"
    /\ UNCHANGED <<ext, status, last_execution_time, topology, data_queue,
                   tasklet_queue, cur, val, wk_q, wk_i, executed, system_time,
                   send_q, ret, nsend, nclear, history>>

NextExecute ==
    \/ Execute
    \/ ExecuteCyclic
    \/ ExecuteNoProvider

SpecExecute == InitExecute /\ [][NextExecute]_vars

\* The provider bound to tasklet t yields a value.
Yields(t) ==
    \/ provider_kind[t] = "queue" /\ data_queue[data_provider[t]] # <<>>
    \/ provider_kind[t] = "cyclic"

\* C23: execute() invokes the step function exactly once, with the value
\* taken from the bound provider, if and only if the provider yields a
\* value, and that step consumes exactly one input (the head of the queue);
\* without a provider or without data the step function is not invoked and
\* nothing is consumed.
C23_ExecuteHandsOver ==
    [][pc = "execute" =>
          IF Yields(cur)
          THEN /\ pc' = "step"
               /\ log' = Append(log, <<cur, val'>>)
               /\ provider_kind[cur] = "queue" =>
                     /\ val' = Head(data_queue[data_provider[cur]])
                     /\ data_queue' =
                            [data_queue EXCEPT ![data_provider[cur]] = Tail(@)]
               /\ provider_kind[cur] = "cyclic" =>
                     val' = "unit" /\ data_queue' = data_queue
          ELSE /\ pc' = "set_time"
               /\ log' = log
               /\ val' = val
               /\ data_queue' = data_queue]_vars

\* C23 witness: execute() on a tasklet bound to a queue holding two values
\* has invoked the step once with the first and left the second.
C23_Witness ==
    /\ pc = "step" /\ provider_kind[cur] = "queue"
    /\ Len(sent[data_provider[cur]]) = 2
    /\ log = <<<<cur, sent[data_provider[cur]][1]>>>>
    /\ val = sent[data_provider[cur]][1]
    /\ data_queue[data_provider[cur]] = <<sent[data_provider[cur]][2]>>

\* C23 witness of the other side: execute() on a tasklet without a provider
\* has returned with the queue and the log as they were.
C23_WitnessNoProvider ==
    /\ pc = "set_time" /\ provider_kind[cur] = "none"
    /\ log = <<>> /\ val = 0
    /\ Len(data_queue[1]) = 2 /\ data_queue = sent

\* ======================================================= initialization
\* The subscription calls an application makes before the start, each as the
\* function of its object: Tasklet::subscribe, MessageQueue::register_tasklet,
\* Event::add_set and TimeManager::create_cyclic_execution.  No tasklet is
\* bound and every list is empty when the first call is made.
InitPhase ==
    /\ InitExecutor /\ NoQueues /\ NoEvents /\ NoConditions /\ NoCyclic
    /\ provider_kind = [t \in Tasklets |-> "none"]

\* Mutant of ListAdd: a full list makes room by dropping its oldest entry.
ListAdd_DropsOldest(list, x) ==
    IF Len(list) < TASKLET_COUNT
    THEN [ok |-> TRUE, list |-> Append(list, x)]
    ELSE [ok |-> TRUE, list |-> Append(Tail(list), x)]

\* InternalList::add on a list of capacity TASKLET_COUNT
ListAdd(list, x) ==
    IF Len(list) < TASKLET_COUNT
    THEN [ok |-> TRUE, list |-> Append(list, x)]
    ELSE [ok |-> FALSE, list |-> list]

\* DataReceiver::subscribe of a tasklet: the provider is stored, Ok(())
Subscribe ==
    \E t \in Tasklets :
    \E b \in ({"queue"} \X Queues)
              \cup ({"event_set", "condition_set", "cyclic"} \X {0}) :
        /\ pc = "init"
        /\ Len(init_calls) < MaxInitCalls
        /\ init_calls' =
               Append(init_calls, [op |-> "subscribe", target |-> t, arg |-> b])
        /\ provider_kind' = [provider_kind EXCEPT ![t] = b[1]]
        /\ data_provider' = [data_provider EXCEPT ![t] = b[2]]
        /\ ret' = "Ok"
        /\ UNCHANGED <<pc, status, last_execution_time, priority,
                       registered_tasklets, tasklet_queue, cur, val, executed,
                       system_time, log, queues, events, conditions, cyclic,
                       watchdog, handler>>

\* MessageQueue::register_tasklet
RegisterTasklet ==
    \E q \in Queues : \E t \in Tasklets :
        LET r == ListAdd(registered_tasklets[q], t)
        IN /\ pc = "init"
           /\ Len(init_calls) < MaxInitCalls
           /\ init_calls' =
                  Append(init_calls,
                         [op |-> "register_tasklet", target |-> q, arg |-> t])
           /\ registered_tasklets' = [registered_tasklets EXCEPT ![q] = r.list]
           /\ ret' = IF r.ok THEN "Ok" ELSE "TaskletListFull"
           /\ UNCHANGED <<pc, status, last_execution_time, data_provider,
                          priority, tasklet_queue, cur, val, executed,
                          system_time, log, queues, provider_kind, events,
                          conditions, cyclic, watchdog, handler>>

\* Event::add_set: the event set of tasklet t is added to event e
AddSet ==
    \E e \in EventIds : \E t \in Tasklets :
        LET r == ListAdd(sets[e], t)
        IN /\ pc = "init"
           /\ Len(init_calls) < MaxInitCalls
           /\ init_calls' =
                  Append(init_calls, [op |-> "add_set", target |-> e, arg |-> t])
           /\ sets' = [sets EXCEPT ![e] = r.list]
           /\ ret' = IF r.ok THEN "Ok" ELSE "EventSetListFull"
           /\ UNCHANGED <<pc, status, last_execution_time, data_provider,
                          priority, registered_tasklets, tasklet_queue, cur,
                          val, executed, system_time, log, queues,
                          provider_kind, active, nemit, emitted, conditions,
                          cyclic, watchdog, handler>>

\* TimeManager::create_cyclic_execution
CreateCyclicExecution ==
    \E t \in Tasklets : \E p \in {{}} \cup {{d} : d \in 1..MaxPeriod} :
        LET ce == [tasklet |-> t, period |-> p]
            r == ListAdd(cyclic_executions, ce)
        IN /\ pc = "init"
           /\ Len(init_calls) < MaxInitCalls
           /\ init_calls' =
                  Append(init_calls,
                         [op |-> "create_cyclic_execution", target |-> 0,
                          arg |-> ce])
           /\ cyclic_executions' = r.list
           /\ ret' = IF r.ok THEN "Ok" ELSE "CyclicExecutionListFull"
           /\ UNCHANGED <<pc, status, last_execution_time, data_provider,
                          priority, registered_tasklets, tasklet_queue, cur,
                          val, executed, system_time, log, queues,
                          provider_kind, events, conditions,
                          next_execution_time, period, ntick, watchdog,
                          handler>>

NextInit ==
    \/ Subscribe
    \/ RegisterTasklet
    \/ AddSet
    \/ CreateCyclicExecution
    \/ Start

SpecInit == InitPhase /\ [][NextInit]_vars

\* The call made by this step, when the step is a subscription call.
IsCall == Len(init_calls') = Len(init_calls) + 1
Call == init_calls'[Len(init_calls')]

\* C24: subscribe binds a tasklet that has no provider and returns Ok; on a
\* tasklet that already has a provider it fails with
\* DataReceiverAlreadySubscribed and leaves the first binding in place.
C24_SecondSubscribeFails ==
    [][IsCall /\ Call.op = "subscribe" =>
          LET t == Call.target
          IN IF provider_kind[t] = "none"
             THEN /\ ret' = "Ok"
                  /\ provider_kind'[t] = Call.arg[1]
                  /\ data_provider'[t] = Call.arg[2]
             ELSE /\ ret' = "DataReceiverAlreadySubscribed"
                  /\ provider_kind'[t] = provider_kind[t]
                  /\ data_provider'[t] = data_provider[t]]_vars

\* An append of x to a bounded list, all or nothing.
AllOrNothing(old, new, x, err) ==
    IF Len(old) < TASKLET_COUNT
    THEN new = Append(old, x) /\ ret' = "Ok"
    ELSE new = old /\ ret' = err

\* C26: registering a tasklet on a queue, adding an event set to an event
\* and creating a cyclic execution append exactly one entry and succeed
\* while the list holds fewer than TASKLET_COUNT entries, and fail with the
\* list-full error of that list, leaving it unchanged, once it holds
\* TASKLET_COUNT entries; no other list changes.
C26_AppendAllOrNothing ==
    [][IsCall =>
          /\ Call.op = "register_tasklet" =>
                /\ AllOrNothing(registered_tasklets[Call.target],
                                registered_tasklets'[Call.target], Call.arg,
                                "TaskletListFull")
                /\ \A q \in Queues \ {Call.target} :
                      registered_tasklets'[q] = registered_tasklets[q]
                /\ UNCHANGED <<sets, cyclic_executions>>
          /\ Call.op = "add_set" =>
                /\ AllOrNothing(sets[Call.target], sets'[Call.target],
                                Call.arg, "EventSetListFull")
                /\ \A e \in EventIds \ {Call.target} : sets'[e] = sets[e]
                /\ UNCHANGED <<registered_tasklets, cyclic_executions>>
          /\ Call.op = "create_cyclic_execution" =>
                /\ AllOrNothing(cyclic_executions, cyclic_executions',
                                Call.arg, "CyclicExecutionListFull")
                /\ UNCHANGED <<registered_tasklets, sets>>]_vars

\* C26 witness: the third registration on a queue has failed and the list
\* still holds the first two entries.
C26_Witness ==
    /\ pc = "init" /\ Len(init_calls) = 3
    /\ \A i \in 1..3 :
          init_calls[i].op = "register_tasklet" /\ init_calls[i].target = 1
    /\ ret = "TaskletListFull"
    /\ registered_tasklets[1] = <<init_calls[1].arg, init_calls[2].arg>>

\* The static topology: every queue's subscriber list, every event's list of
\* event sets, the members and rule of every condition set, the list of
\* cyclic executions with their periods, and every tasklet's provider and
\* priority.
Wiring ==
    <<registered_tasklets, sets, cond_members, cond_rule, cyclic_executions,
      period, data_provider, provider_kind, priority>>

\* C25: once start has been called no operation changes the topology.
C25_TopologyFrozen == [][Started => UNCHANGED Wiring]_vars

\* C25 witness: after the start a value has been sent, a step has run, a
\* queue has been cleared and the executor has gone round its loop, with two
\* tasklets subscribed to the first queue.
C25_Witness ==
    /\ pc = "loop" /\ nclear = 1 /\ Len(log) >= 2
    /\ \E q \in Queues : Len(sent[q]) >= 2
    /\ registered_tasklets[1] = <<1, 2>>
    /\ data_provider = [t \in Tasklets |-> 1]

\* ============================================================ round trip
\* Tasklet Echoer is the only subscriber of queue EchoSource and its step
\* sends its input on queue EchoSink; the other tasklet consumes EchoSink.
\* The consumer has the higher priority, so it runs before the next echo and
\* EchoSink never fills.
Echoer == 1
EchoSource == 1
EchoSink == 2

InitEcho ==
    /\ InitExecutor /\ NoEvents /\ NoConditions /\ NoCyclic
    /\ provider_kind = [t \in Tasklets |-> "queue"]
    /\ priority = [t \in Tasklets |-> IF t = Echoer THEN 1 ELSE 5]
    /\ data_provider = [t \in Tasklets |-> IF t = Echoer THEN EchoSource ELSE EchoSink]
    /\ registered_tasklets =
           [q \in Queues |-> SubscribersUpTo(data_provider, q, TASKLET_COUNT)]

\* Sends on EchoSource by the application before the start, by an interrupt
\* handler at any point of the executor loop, and by the consumer's step.
InitSendEcho == pc = "init" /\ SendDataAtomic(EchoSource, "init")
IsrSendEcho == Started /\ pc # "halted" /\ SendDataAtomic(EchoSource, pc)
StepSendEcho == cur # Echoer /\ StepSend /\ send_q' = EchoSource

\* The consumer's step returns without a call.
StepReturnEcho == cur # Echoer /\ StepReturn

\* The step of Echoer calls send_data(input) on EchoSink: the enqueue under
\* the queue's lock, then wake_tasklets in WakeRead and WakePush.
StepEcho ==
    /\ pc = "step"
    /\ cur = Echoer
    /\ send_q' = EchoSink
    /\ IF Len(data_queue[EchoSink]) >= QueueCapacity
       THEN /\ ret' = "DataQueueFull"
            /\ pc' = "set_time"
            /\ UNCHANGED <<data_queue, sent, wk_q, wk_i>>
       ELSE /\ data_queue' = [data_queue EXCEPT ![EchoSink] = Append(@, val)]
            /\ sent' = [sent EXCEPT ![EchoSink] = Append(@, val)]
            /\ wk_q' = EchoSink
            /\ IF registered_tasklets[EchoSink] = <<>>
               THEN /\ ret' = "Ok"
                    /\ pc' = "set_time"
                    /\ UNCHANGED wk_i
               ELSE /\ ret' = "pending"
                    /\ wk_i' = 1
                    /\ pc' = "wake_read"
    /\ UNCHANGED <<ext, status, last_execution_time, topology, tasklet_queue,
                   cur, val, executed, system_time, nsend, nclear, log,
                   cleared>>

\* The main thread once the scheduler runs.
MainThreadEcho ==
    \/ GetTaskletForExecution
    \/ SetWorking
    \/ Execute
    \/ StepEcho
    \/ StepSendEcho
    \/ StepReturnEcho
    \/ WakeRead
    \/ WakePush
    \/ SetLastExecutionTime
    \/ RescheduleTasklet
    \/ Requeue
    \/ SetSleeping

NextEcho ==
    \/ InitSendEcho
    \/ Start
    \/ IsrSendEcho
    \/ GetTaskletForExecution
    \/ SetWorking
    \/ Execute
    \/ StepEcho
    \/ StepSendEcho
    \/ StepReturnEcho
    \/ WakeRead
    \/ WakePush
    \/ SetLastExecutionTime
    \/ RescheduleTasklet
    \/ Requeue
    \/ SetSleeping

SpecEcho == InitEcho /\ [][NextEcho]_vars

\* The application starts the scheduler and the main thread keeps running;
\* interrupt handlers may or may not fire.
SpecEchoFair == SpecEcho /\ WF_vars(Start) /\ WF_vars(MainThreadEcho)

\* Value v has been enqueued on queue q.
Enqueued(v, q) == \E i \in 1..Len(sent[q]) : sent[q][i] = v

\* C28: every value successfully sent on EchoSource, from a step or from
\* interrupt context, is eventually enqueued on EchoSink by the echo.
C28_RoundTrip ==
    \A v \in 1..MaxSends : Enqueued(v, EchoSource) ~> Enqueued(v, EchoSink)

\* C29: scheduling is deterministic: the order of the heap is a strict total
\* order on the tasklets, so the tasklet popped for execution is the one
\* entry strictly greater than every other tasklet in the heap, also among
\* tasklets of equal priority; the pop is a function of the heap's content.
C29_PopIsDetermined ==
    /\ [](\A t, u \in Tasklets :
             t # u => (TaskletLess(t, u) <=> ~TaskletLess(u, t)))
    /\ [][pc = "loop" /\ pc' = "set_working" =>
             /\ tasklet_queue[cur'] > 0
             /\ \A u \in Tasklets \ {cur'} :
                   tasklet_queue[u] > 0 =>
                       TaskletLess(u, cur') /\ ~TaskletLess(cur', u)]_vars

\* C29 witness: two tasklets of equal priority were in the heap and the
\* first pop has taken one of them, the other still waiting.
C29_Witness ==
    /\ pc = "set_working" /\ log = <<>>
    /\ \E u \in Tasklets \ {cur} :
          /\ priority[u] = priority[cur]
          /\ tasklet_queue[u] = 1 /\ status[u] = "Waiting"
    /\ status[cur] = "Waiting" /\ tasklet_queue[cur] = 0

\* ============================================================= tie-break
\* Tasklets bound to condition sets, run without a bound on the number of
\* steps: a set whose rule holds keeps its tasklet ready after every step.
\* The history `log` records the first MaxSteps steps only.
ExecuteConditionSetUnlogged ==
    /\ pc = "execute"
    /\ provider_kind[cur] = "condition_set"
    /\ Len(log) >= MaxSteps
    /\ val' = Evaluate(cond_value, cur)
    /\ pc' = "step"
    /\ UNCHANGED <<status, last_execution_time, topology, tasklet_queue, cur,
                   executed, system_time, ret, log, queues, provider_kind,
                   events, conditions, cyclic>>

\* The main thread once the scheduler runs.
MainThreadTieBreak ==
    \/ GetTaskletForExecution
    \/ SetWorking
    \/ ExecuteConditionSet
    \/ ExecuteConditionSetUnlogged
    \/ StepReturn
    \/ StepSetCondition
    \/ SetLastExecutionTime
    \/ RescheduleTasklet
    \/ Requeue
    \/ SetSleeping

NextTieBreak ==
    \/ InitSetCondition
    \/ Start
    \/ IsrSetCondition
    \/ GetTaskletForExecution
    \/ SetWorking
    \/ ExecuteConditionSet
    \/ ExecuteConditionSetUnlogged
    \/ StepReturn
    \/ StepSetCondition
    \/ SetLastExecutionTime
    \/ RescheduleTasklet
    \/ Requeue
    \/ SetSleeping

\* All tasklets are created with the same priority.
InitTieBreak == InitConditions /\ priority = [t \in Tasklets |-> 1]

SpecTieBreak == InitTieBreak /\ [][NextTieBreak]_vars

\* The application starts the scheduler and the main thread keeps taking
\* its next step (every step but the pop on an empty heap moves pc);
\* interrupt handlers may or may not fire.
SpecTieBreakFair ==
    SpecTieBreak /\ WF_pc(Start) /\ WF_pc(MainThreadTieBreak)

C31_OnlyHeapPushHalts ==
    /\ [](pc = "halted" => HeapFull(tasklet_queue))
    /\ [][/\ (nsend' # nsend /\ ret' = "DataQueueFull") =>
               (/\ pc' = pc \/ (pc = "step" /\ pc' = "set_time")
                /\ UNCHANGED <<status, tasklet_queue, data_queue, cur>>)
          /\ (pc # "halted" /\ pc' = "halted") =>
               (/\ HeapFull(tasklet_queue')
                /\ (pc \in {"wake_push", "requeue"} \/ ret' = "panic"))]_vars

\* C31 witness: the last of four sends has failed with DataQueueFull on the
\* second queue, which still holds its two values, and after it the executor
\* has popped and started the other tasklet.
C31_Witness ==
    /\ pc = "step" /\ ret = "DataQueueFull" /\ nsend = 4 /\ send_q = 2
    /\ Len(sent[2]) = 2 /\ Len(sent[1]) = 1
    /\ Len(log) = 2 /\ log[1][1] # cur /\ log[2][1] = cur

\* ============================================================== watchdog
\* The driver of the watchdog timer.  A call changes the mode register by a
\* read-modify-write of the fields it names.
MaxWatchdogCalls == 3

\* WatchdogConfiguration: counter is a u16
Counters == {0, 1, WDV_MAX, WDV_MAX + 1, 65535}
WatchdogConfiguration ==
    [enabled : BOOLEAN, reset_enabled : BOOLEAN, counter : Counters]

\* u16::clamp
Clamp(x, lo, hi) == IF x < lo THEN lo ELSE IF x > hi THEN hi ELSE x

\* WatchdogDisable::disable on the driver state w
DisableWatchdog(w) ==
    IF w.configured
    THEN w
    ELSE [mr |-> [w.mr EXCEPT !.wddis = TRUE], configured |-> TRUE]

\* Watchdog::configure on the driver state w
ConfigureWatchdog(w, configuration) ==
    IF w.configured
    THEN w
    ELSE IF ~configuration.enabled
    THEN DisableWatchdog(w)
    ELSE [mr |-> [w.mr EXCEPT
                     !.wdrsten = configuration.reset_enabled,
                     !.wdv = Clamp(configuration.counter, 0, WDV_MAX)],
          configured |-> w.configured]

\* a call of Watchdog::configure
Configure ==
    \E configuration \in WatchdogConfiguration :
        LET w == ConfigureWatchdog([mr |-> wdt_mr, configured |-> configured],
                                   configuration)
        IN /\ Len(wdt_calls) < MaxWatchdogCalls
           /\ wdt_mr' = w.mr
           /\ configured' = w.configured
           /\ wdt_calls' =
                  Append(wdt_calls, [op |-> "configure", arg |-> configuration])
           /\ UNCHANGED <<pc, status, last_execution_time, data_provider,
                          priority, registered_tasklets, init_calls,
                          tasklet_queue, cur, val, executed, system_time, ret,
                          log, queues, ext, handler>>

\* a call of WatchdogDisable::disable
Disable ==
    LET w == DisableWatchdog([mr |-> wdt_mr, configured |-> configured])
    IN /\ Len(wdt_calls) < MaxWatchdogCalls
       /\ wdt_mr' = w.mr
       /\ configured' = w.configured
       /\ wdt_calls' = Append(wdt_calls, [op |-> "disable", arg |-> <<>>])
       /\ UNCHANGED <<pc, status, last_execution_time, data_provider,
                      priority, registered_tasklets, init_calls,
                      tasklet_queue, cur, val, executed, system_time, ret,
                      log, queues, ext, handler>>

InitWatchdog == InitPhase /\ priority = [t \in Tasklets |-> 1]

NextWatchdog ==
    \/ Configure
    \/ Disable

SpecWatchdog == InitWatchdog /\ [][NextWatchdog]_vars

\* C32: the watchdog is configured at most once per boot: once configure or
\* disable has been called, no later call of configure or disable changes the
\* mode register.
C32_ConfiguredOnce == [][wdt_calls # <<>> => wdt_mr' = wdt_mr]_vars

\* ================================================= interrupt interleaving
\* C33: no wake-up is lost: whenever the executor is between loop turns,
\* every tasklet whose provider reports data ready is Waiting in the heap,
\* also when an interrupt handler sends at any point of a loop turn.
C33_NoLostWakeup ==
    pc = "loop" =>
        \A t \in Tasklets :
            HasWork(t) => (status[t] = "Waiting" /\ tasklet_queue[t] > 0)

\* C34: no tasklet is in the executor heap more than once, under any
\* interleaving of the wakes of interrupt handlers with the wakes of a step
\* and with the executor's own re-queue.
C34_AtMostOnceInHeap == \A t \in Tasklets : tasklet_queue[t] <= 1

\* C35: status and heap membership are consistent: a tasklet in the heap is
\* Waiting (so a Sleeping or Working tasklet is not in the heap), and a
\* Waiting tasklet that is not in the heap is the one the executor has just
\* popped and is about to mark Working.
C35_StatusMatchesHeap ==
    \A t \in Tasklets :
        /\ tasklet_queue[t] > 0 => status[t] = "Waiting"
        /\ (status[t] = "Waiting" /\ tasklet_queue[t] = 0) =>
               (t = cur /\ pc = "set_working")

\* The state in which wake_tasklets, run from the i-th registered tasklet
\* on, makes the call of schedule_tasklet that fails, and the tasklet of
\* that call.
RECURSIVE BeforeFailedWake(_, _, _, _)
BeforeFailedWake(st, h, list, i) ==
    LET r == ScheduleTasklet(st, h, list[i])
    IN IF r.ok
       THEN BeforeFailedWake(r.status, r.heap, list, i + 1)
       ELSE [status |-> st, heap |-> h, tasklet |-> list[i]]

\* C36: a wake that fails with ExecutorTaskletQueueFull leaves the state as
\* it was before the call: the heap is the same and the tasklet keeps its
\* status, both for the wake of a step's send and for the wake of a send
\* issued by an interrupt handler.
C36_FailedWakeChangesNothing ==
    [][/\ (pc = "wake_push" /\ pc' = "halted" /\ nsend' = nsend) =>
              UNCHANGED <<status, tasklet_queue>>
       /\ (pc # "halted" /\ pc' = "halted" /\ nsend' # nsend) =>
              LET b == BeforeFailedWake(status, tasklet_queue,
                                        registered_tasklets[send_q'], 1)
              IN /\ tasklet_queue' = b.heap
                 /\ status' = b.status]_vars

\* ===================================================== tick, step by step
\* The tick handler of the time manager with the catch-up loop of
\* wake_if_should_execute taken one addition at a time.  A period is any
\* duration the init API passes on, zero included.
MaxAdds == 3

InitTick ==
    /\ InitExecutor /\ NoQueues /\ NoEvents /\ NoConditions
    /\ priority = [t \in Tasklets |-> 1]
    /\ provider_kind = [t \in Tasklets |-> "cyclic"]
    /\ period \in [Tasklets -> {{}} \cup {{p} : p \in 0..MaxPeriod}]
    /\ next_execution_time \in [Tasklets -> 0..MaxOffset]
    /\ cyclic_executions =
           [i \in 1..TASKLET_COUNT |-> [tasklet |-> i, period |-> period[i]]]

\* The tick interrupt: the handler reads the current instant and starts at
\* the first cyclic execution.
TickBegin ==
    \E now \in system_time..MaxTick :
        /\ Started /\ pc # "halted"
        /\ tk_pc = "idle"
        /\ ntick < MaxTicks
        /\ ntick' = ntick + 1
        /\ system_time' = now
        /\ tk_pc' = "check"
        /\ tk_i' = 1
        /\ UNCHANGED <<pc, status, last_execution_time, data_provider,
                       priority, registered_tasklets, init_calls, watchdog,
                       nadd, tasklet_queue, cur, val, executed, ret, log,
                       queues, provider_kind, events, conditions,
                       next_execution_time, period, cyclic_executions>>

\* wake_if_should_execute of the record the handler has reached, up to the
\* catch-up loop: the test of the period and of the next execution time
\* and the wake.
TickCheck ==
    /\ tk_pc = "check"
    /\ IF tk_i > Len(cyclic_executions)
       THEN /\ tk_pc' = "idle"
            /\ tk_i' = 0
            /\ UNCHANGED <<status, tasklet_queue, pc, ret>>
       ELSE LET t == cyclic_executions[tk_i].tasklet
                due == period[t] = {} \/ system_time >= next_execution_time[t]
                r == IF due THEN ScheduleTasklet(status, tasklet_queue, t)
                     ELSE [status |-> status, heap |-> tasklet_queue,
                           ok |-> TRUE]
            IN /\ status' = r.status
               /\ tasklet_queue' = r.heap
               /\ ret' = IF r.ok THEN ret ELSE "panic"
               /\ pc' = IF r.ok THEN pc ELSE "halted"
               /\ IF due /\ period[t] # {}
                  THEN tk_pc' = "advance" /\ tk_i' = tk_i
                  ELSE tk_pc' = "check" /\ tk_i' = tk_i + 1
    /\ nadd' = 0
    /\ UNCHANGED <<last_execution_time, data_provider, priority,
                   registered_tasklets, init_calls, watchdog, cur, val,
                   executed, system_time, log, queues, provider_kind, events,
                   conditions, cyclic>>

\* One turn of the catch-up loop: while current_time >= *next, one period
\* is added; otherwise the loop ends and the handler goes to the next
\* record.
TickAdvance ==
    /\ tk_pc = "advance"
    /\ LET t == cyclic_executions[tk_i].tasklet
           p == CHOOSE d \in period[t] : TRUE
       IN IF system_time >= next_execution_time[t]
          THEN /\ next_execution_time' =
                      [next_execution_time EXCEPT ![t] = @ + p]
               /\ nadd' = (nadd + 1) % MaxAdds
               /\ UNCHANGED <<tk_pc, tk_i>>
          ELSE /\ tk_pc' = "check"
               /\ tk_i' = tk_i + 1
               /\ nadd' = 0
               /\ UNCHANGED next_execution_time
    /\ UNCHANGED <<pc, status, last_execution_time, data_provider, priority,
                   registered_tasklets, init_calls, watchdog, tasklet_queue,
                   cur, val, executed, system_time, ret, log, queues,
                   provider_kind, events, conditions, period, ntick,
                   cyclic_executions>>

NextTick ==
    \/ Start
    \/ TickBegin
    \/ TickCheck
    \/ TickAdvance

SpecTick == InitTick /\ [][NextTick]_vars

\* A handler that has started goes on running: no step of it waits for
\* anything but the processor.
SpecTickFair == SpecTick /\ WF_vars(TickCheck) /\ WF_vars(TickAdvance)

\* C37: the tick handling of the time manager terminates for every cyclic
\* record and every current time: a handler that has begun returns, for
\* every period the init API accepts, a period of zero included.
C37_TickTerminates == (tk_pc # "idle") ~> (tk_pc = "idle")

\* ============================================================== hand-off
\* C38: exactly-once hand-off.  A queue holds between 0 and QueueCapacity
\* elements; every value handed to a step was sent on the queue of that
\* tasklet, and no value is handed to a step twice, be it to the same or to
\* another subscriber; a tasklet executed while its queue is empty, its
\* value having been taken by another subscriber, runs no step.
C38_ExactlyOnceHandOff ==
    /\ [](/\ \A q \in Queues : Len(data_queue[q]) \in 0..QueueCapacity
          /\ \A i \in 1..Len(log) :
                /\ \E k \in 1..Len(sent[data_provider[log[i][1]]]) :
                      sent[data_provider[log[i][1]]][k] = log[i][2]
                /\ \A j \in 1..Len(log) : log[i][2] = log[j][2] => i = j)
    /\ [][(pc = "execute" /\ data_queue[data_provider[cur]] = <<>>) =>
              (log' = log /\ val' = val /\ pc' # "step")]_vars

\* C38 witness: both tasklets are subscribed to the first queue and were
\* woken by its two values; the tasklet popped first has run two steps and
\* taken both, and the other one, popped afterwards, has run no step.
C38_Witness ==
    /\ pc = "set_time" /\ cur \in Tasklets /\ val = 0
    /\ data_provider = [t \in Tasklets |-> 1]
    /\ sent[1] = <<1, 2>> /\ data_queue[1] = <<>>
    /\ Len(log) = 2
    /\ \A i \in 1..2 : log[i][1] # cur /\ log[i][2] = i

====
